---- MODULE Spec2Model ----
(***************************************************************************)
(* A model of the secure echo channel of challenge2 (SecureReader,         *)
(* SecureWriter, Dial, Serve and the command-line client).  The repository *)
(* holds two versions of the program, src/challenge2/main.go and           *)
(* src/unnamed/part_000; the variable `variant` says which one runs.       *)
(*                                                                         *)
(* Cryptography is symbolic: a key pair is named by its owner, a nonce by  *)
(* the draw that produced it, and box.Seal/box.Open are modelled by what   *)
(* they bind (nonce, plaintext, shared key).  A byte stream is a sequence  *)
(* of pieces <<blob, lo, hi>>: the bytes lo..hi-1 of a written blob, so    *)
(* every length is counted in real bytes.                                  *)
(*                                                                         *)
(* The module also models DecodeFile of package drum (the decoder of the   *)
(* drum machine's pattern files), in the variable `drum`.                  *)
(***************************************************************************)
EXTENDS Integers, Sequences, FiniteSets, TLC

\* ------------------------------------------------------------------ bounds
MaxConns == 2
MaxSends == 2
MaxMsgLen == 2
MaxShort == 1
MaxFaults == 1
MaxTracks == 2
MaxWord == 1

\* ------------------------------------------------------- program constants
KeySize == 32
NonceSize == 24
Overhead == 16
CopyBufSize == 32768

Conns == 1..MaxConns
Server == 0
Owners == 0..MaxConns
Variants == {"challenge2", "part_000"}
ZeroByte == <<0, 0>>

VARIABLES variant, proc, serve, cli, tsk, net, c2s, s2c, drum

vars == <<variant, proc, serve, cli, tsk, net, c2s, s2c, drum>>

\* ----------------------------------------------------------- byte streams
Min(a, b) == IF a < b THEN a ELSE b

PLen(p) == p[3] - p[2]

RECURSIVE SLen(_)
SLen(s) == IF s = <<>> THEN 0 ELSE PLen(Head(s)) + SLen(Tail(s))

RECURSIVE Take(_, _)
Take(s, n) ==
    IF n <= 0 \/ s = <<>> THEN <<>>
    ELSE IF PLen(Head(s)) <= n
         THEN <<Head(s)>> \o Take(Tail(s), n - PLen(Head(s)))
         ELSE << <<Head(s)[1], Head(s)[2], Head(s)[2] + n>> >>

RECURSIVE Drop(_, _)
Drop(s, n) ==
    IF n <= 0 \/ s = <<>> THEN s
    ELSE IF PLen(Head(s)) <= n
         THEN Drop(Tail(s), n - PLen(Head(s)))
         ELSE << <<Head(s)[1], Head(s)[2] + n, Head(s)[3]>> >> \o Tail(s)

\* ------------------------------------------------------------- nacl/box
KeyBlob(o) ==
    [kind |-> "pub", own |-> o, sk |-> {}, nonce |-> <<0, 0, 0>>,
     msg |-> <<>>, alt |-> "ok"]

\* The 32 bytes of owner o's public key, as they travel on the wire.
PubKey(o) == << <<KeyBlob(o), 0, KeySize>> >>

NoKey == <<>>

KeyOwner(k) ==
    IF \E o \in Owners : k = PubKey(o)
    THEN CHOOSE o \in Owners : k = PubKey(o)
    ELSE -1

\* The shared key box derives from a private key and a peer's public key.
Shared(priv, pub) == {priv, KeyOwner(pub)}

\* (mutant) the frame without its nonce: box.Seal(nil, ...).
FrameLenNoNonce(msg) == Len(msg) + Overhead

FrameLen(msg) == NonceSize + Len(msg) + Overhead

\* box.Seal(nonce[:], message, &nonce, pub, priv): nonce || ciphertext || tag.
Seal(nonce, msg, pub, priv) ==
    << <<[kind |-> "box", own |-> priv, sk |-> Shared(priv, pub),
          nonce |-> nonce, msg |-> msg, alt |-> "ok"], 0, FrameLen(msg)>> >>

NonceVal(bytes) ==
    IF /\ Len(bytes) = 1
       /\ bytes[1][1].kind = "box"
       /\ bytes[1][1].alt # "nonce"
       /\ bytes[1][2] = 0
       /\ bytes[1][3] = NonceSize
    THEN bytes[1][1].nonce
    ELSE <<-1, -1, -1>>

\* box.Open(message[:0], box, &nonce, pub, priv): the tag is verified before
\* anything is decrypted; on failure nothing is written.
Open(box, nonce, pub, priv) ==
    LET good == /\ Len(box) = 1
                /\ box[1][1].kind = "box"
                /\ box[1][1].alt = "ok"
                /\ box[1][2] = NonceSize
                /\ box[1][3] = NonceSize + Len(box[1][1].msg) + Overhead
                /\ NonceVal(nonce) = box[1][1].nonce
                /\ box[1][1].sk = Shared(priv, pub)
    IN  [ok |-> good, dec |-> IF good THEN box[1][1].msg ELSE <<>>]

\* ------------------------------------------------------------ io helpers
\* io.ReadFull(conn, buf[:n]): loops until n bytes, end of stream or an error.
ReadFull(s, n, eof, brk) ==
    IF brk THEN [n |-> 0, err |-> "io", data |-> <<>>, rest |-> s]
    ELSE IF SLen(s) >= n
         THEN [n |-> n, err |-> "nil", data |-> Take(s, n), rest |-> Drop(s, n)]
         ELSE [n |-> SLen(s),
               err |-> IF SLen(s) = 0 THEN "EOF" ELSE "ErrUnexpectedEOF",
               data |-> s, rest |-> <<>>]

ReadFullEnabled(s, n, eof, brk) == brk \/ eof \/ SLen(s) >= n

\* One conn.Read(buf) with len(buf) = max that returns k bytes.
ConnRead(s, max, k, eof, brk) ==
    IF brk THEN [n |-> 0, err |-> "io", data |-> <<>>, rest |-> s]
    ELSE IF SLen(s) = 0
         THEN [n |-> 0, err |-> "EOF", data |-> <<>>, rest |-> s]
         ELSE [n |-> k, err |-> "nil", data |-> Take(s, k), rest |-> Drop(s, k)]

\* (mutant) the read is not limited by the buffer: it returns all that is
\* there.
ReadSizesWhole(avail, max) == {avail}

\* The byte counts one conn.Read may return: all that is there (up to the
\* buffer), or fewer.
ReadSizes(avail, max) ==
    {Min(avail, max)} \cup {j \in 1..MaxShort : j < Min(avail, max)}

\* buf[0:n] of a zero-initialised buffer whose written prefix is buf.
Slice(buf, n) == [i \in 1..n |-> IF i <= Len(buf) THEN buf[i] ELSE ZeroByte]

\* append(message[:0], dec...): dec overwrites the front of the buffer.
Overwrite(buf, dec) == dec \o SubSeq(buf, Len(dec) + 1, Len(buf))

\* ---------------------------------------------------------- SecureReader
\* What Read returns beside a non-nil error.
ReadErrCount(readSize) == IF variant = "challenge2" THEN readSize ELSE 0

\* nr is what io.ReadFull returned for the nonce, mr what the one conn.Read
\* returned for the ciphertext (the one-element sets only name the two
\* results, so that each is computed once).
SecureReaderRead(s, eof, brk, cap, k, pub, priv, buf) ==
    LET Result(nr, mr) ==
          LET o == Open(mr.data, nr.data, pub, priv)
          IN  IF nr.err # "nil"
              THEN [n |-> ReadErrCount(nr.n), err |-> "read nonce",
                    buf |-> buf, rest |-> nr.rest]
              ELSE IF mr.err # "nil"
              THEN [n |-> ReadErrCount(mr.n), err |-> "read message",
                    buf |-> buf, rest |-> mr.rest]
              ELSE IF ~o.ok
              THEN [n |-> ReadErrCount(mr.n), err |-> "open message",
                    buf |-> buf, rest |-> mr.rest]
              ELSE [n |-> Len(o.dec), err |-> "nil",
                    buf |-> Overwrite(buf, o.dec), rest |-> mr.rest]
    IN  CHOOSE r \in UNION {{Result(nr, mr) :
                               mr \in {ConnRead(nr.rest, cap + Overhead, k,
                                                eof, brk)}} :
                            nr \in {ReadFull(s, NonceSize, eof, brk)}} : TRUE

\* Read blocks until the nonce and at least one more byte are there, the
\* peer has closed, or the transport fails.
SecureReadEnabled(s, eof, brk) == brk \/ eof \/ SLen(s) > NonceSize

ReadChoices(s, cap) ==
    IF SLen(s) > NonceSize
    THEN ReadSizes(SLen(s) - NonceSize, cap + Overhead)
    ELSE {0}

\* ---------------------------------------------------------- SecureWriter
WriteErrCount(writeSize) == IF variant = "challenge2" THEN writeSize ELSE 0

SecureWriterWrite(msg, nonce, pub, priv, brk) ==
    LET enc == Seal(nonce, msg, pub, priv)
    IN  IF brk
        THEN [n |-> WriteErrCount(0), err |-> "io", out |-> <<>>]
        ELSE [n |-> Len(msg), err |-> "nil", out |-> enc]

\* Write when the transport fails after it took k bytes of the frame:
\* sw.Writer.Write returns (k, err).
SecureWriterWriteCut(msg, nonce, pub, priv, k) ==
    [n |-> WriteErrCount(k), err |-> "io",
     out |-> Take(Seal(nonce, msg, pub, priv), k)]

\* The byte counts at which a write of n bytes is cut: inside the nonce, right
\* after it, and one byte before the end.
CutSizes(n) == {1, NonceSize, n - 1}

\* ------------------------------------------------------------- handshake
\* (mutant) both roles read the peer's key before they write their own.
HsStepsReadFirst == <<"hs_read", "hs_write">>

\* Both roles write their own public key, then read the peer's.
HsSteps == <<"hs_write", "hs_read">>

\* (mutant) the role goes on right after its first handshake step.
AfterHsOneStep(p, done) == done

\* The position that follows handshake step p; done is where the role goes on.
AfterHs(p, done) == IF p = HsSteps[1] THEN HsSteps[2] ELSE done

\* (mutant) one key pair, generated once and used by every Dial call.
DialKeyShared(c) == 1

\* The key pair box.GenerateKey gives the Dial call of connection c: a fresh
\* one for every call.
DialKey(c) == c

\* (mutant) the task works on another connection than the one accepted for
\* it, as when the goroutine reads a variable the accept loop overwrites.
TaskConnOther(c) == (c % MaxConns) + 1

\* The connection a connection task works on: Serve passes it as the
\* goroutine's argument.
TaskConn(c) == c

\* ------------------------------------------------------------ drum decoder
\* DecodeFile of package drum.  The repository holds it in two forms: the
\* one function of src/unnamed/part_001, and the loop of challenge1/drum.go
\* (the same in challenge1-drum-machine/decoder.go and at the end of
\* challenge2/main.go) over readHeader and readTrack of part_002.
DrumVersions == {"part_001", "drum.go"}

HeaderSize == 46
TempoSize == 4
TrackHeaderSize == 5
StepsInTrack == 16

\* The header's FileSize field counts the bytes that follow it: those after
\* Splice [6]byte and FileSize int64.
SizeFieldEnd == 14

TrackSize(w) == TrackHeaderSize + w + StepsInTrack

\* Where track i starts in a file whose track names have the lengths words.
RECURSIVE TrackStart(_, _)
TrackStart(words, i) ==
    IF i <= 1 THEN HeaderSize + TempoSize
    ELSE TrackStart(words, i - 1) + TrackSize(words[i - 1])

FullLen(words) == TrackStart(words, Len(words) + 1)

\* The track whose header starts at offset pos (0: none does).
TrackAt(words, pos) ==
    IF \E i \in 1..Len(words) : TrackStart(words, i) = pos
    THEN CHOOSE i \in 1..Len(words) : TrackStart(words, i) = pos
    ELSE 0

\* io.ReadFull(file, buf[:n]) at offset pos of a file of len bytes (also the
\* read binary.Read makes): nil for n = 0, io.EOF when nothing is left,
\* io.ErrUnexpectedEOF when fewer than n bytes are.
FileReadFull(len, pos, n) ==
    IF n = 0 THEN [n |-> 0, err |-> "nil"]
    ELSE IF len - pos >= n THEN [n |-> n, err |-> "nil"]
    ELSE IF len - pos <= 0 THEN [n |-> 0, err |-> "EOF"]
    ELSE [n |-> len - pos, err |-> "ErrUnexpectedEOF"]

\* No file is being decoded.
NoDrum ==
    [ver |-> "part_001", size |-> 0, words |-> <<>>, len |-> 0, pc |-> "idle",
     pos |-> 0, hdrId |-> 0, hdrW |-> 0, tracks |-> <<>>, pat |-> "nil",
     err |-> "nil", failed |-> FALSE, iters |-> 0]

\* ----------------------------------------------------------------- state
NoNet == [cOpen |-> FALSE, sOpen |-> FALSE, acc |-> FALSE, broken |-> FALSE,
          anom |-> FALSE]

NoCli == [pc |-> "init", keyOut |-> FALSE, remote |-> NoKey, sent |-> <<>>,
          rcvd |-> <<>>, n |-> 0, err |-> "nil"]

NoTsk == [pc |-> "none", keyOut |-> FALSE, remote |-> NoKey, buf |-> <<>>,
          nr |-> 0, er |-> "nil", nw |-> 0, ew |-> "nil"]

Init ==
    /\ variant \in Variants
    /\ proc = "running"
    /\ serve = "keygen"
    /\ cli = [c \in Conns |-> NoCli]
    /\ tsk = [c \in Conns |-> NoTsk]
    /\ net = [c \in Conns |-> NoNet]
    /\ c2s = [c \in Conns |-> <<>>]
    /\ s2c = [c \in Conns |-> <<>>]
    /\ drum = NoDrum

\* Messages written so far by all clients, and transport faults so far: the
\* model follows runs with at most MaxSends of the first and MaxFaults of the
\* second.
RECURSIVE TotalSent(_)
TotalSent(n) == IF n = 0 THEN 0 ELSE Len(cli[n].sent) + TotalSent(n - 1)

Faults ==
    Cardinality({c \in Conns : net[c].anom})
    + (IF serve = "returned" THEN 1 ELSE 0)

\* The j-th message of client c, of length len: "msg-{c}" style content.
Msg(c, j, len) == [i \in 1..len |-> <<c, j>>]

\* ---------------------------------------------------------------- client
\* Dial: box.GenerateKey, then net.Dial.
DialConnect(c) ==
    /\ cli[c].pc = "init"
    /\ IF proc = "running"
       THEN /\ cli' = [cli EXCEPT ![c].pc = HsSteps[1]]
            /\ net' = [net EXCEPT ![c] = [NoNet EXCEPT !.cOpen = TRUE,
                                                       !.sOpen = TRUE]]
       ELSE /\ cli' = [cli EXCEPT ![c].pc = "failed", ![c].err = "dial address"]
            /\ net' = net
    /\ UNCHANGED <<variant, proc, serve, tsk, c2s, s2c, drum>>

\* Dial: conn.Write(pub[:]).
DialWriteKey(c) ==
    /\ cli[c].pc = "hs_write"
    /\ IF net[c].broken
       THEN /\ cli' = [cli EXCEPT ![c].pc = "failed",
                                  ![c].err = "write public key"]
            /\ c2s' = c2s
       ELSE /\ cli' = [cli EXCEPT ![c].pc = AfterHs("hs_write", "ready"),
                                  ![c].keyOut = TRUE]
            /\ c2s' = [c2s EXCEPT ![c] = @ \o PubKey(DialKey(c))]
    /\ UNCHANGED <<variant, proc, serve, tsk, net, s2c, drum>>

\* Dial: io.ReadFull(conn, publicKey[:]).
DialReadKey(c) ==
    /\ cli[c].pc = "hs_read"
    /\ ReadFullEnabled(s2c[c], KeySize, ~net[c].sOpen, net[c].broken)
    /\ LET r == ReadFull(s2c[c], KeySize, ~net[c].sOpen, net[c].broken)
       IN  /\ s2c' = [s2c EXCEPT ![c] = r.rest]
           /\ IF r.err # "nil"
              THEN cli' = [cli EXCEPT ![c].pc = "failed",
                                      ![c].err = "read public key"]
              ELSE cli' = [cli EXCEPT ![c].pc = AfterHs("hs_read", "ready"),
                                      ![c].remote = r.data]
    /\ UNCHANGED <<variant, proc, serve, tsk, net, c2s, drum>>

\* The caller of Dial: conn.Write(message) through the SecureWriter.
ClientWrite(c, len) ==
    /\ cli[c].pc = "ready"
    /\ TotalSent(MaxConns) < MaxSends
    /\ LET j == Len(cli[c].sent) + 1
           w == SecureWriterWrite(Msg(c, j, len), <<c, c, j>>, cli[c].remote,
                                  DialKey(c), net[c].broken)
       IN  IF w.err # "nil"
           THEN /\ cli' = [cli EXCEPT ![c].pc = "failed", ![c].n = w.n,
                                      ![c].err = w.err]
                /\ c2s' = c2s
           ELSE /\ cli' = [cli EXCEPT ![c].sent = Append(@, Msg(c, j, len)),
                                      ![c].n = w.n, ![c].err = "nil"]
                /\ c2s' = [c2s EXCEPT ![c] = IF net[c].sOpen THEN @ \o w.out
                                                             ELSE @]
    /\ UNCHANGED <<variant, proc, serve, tsk, net, s2c, drum>>

\* The caller of Dial: conn.Write(message) on a transport that fails while
\* the frame is written, after k of its bytes.
ClientWriteCut(c, len, k) ==
    /\ cli[c].pc = "ready"
    /\ TotalSent(MaxConns) < MaxSends
    /\ net[c].sOpen /\ ~net[c].anom
    /\ Faults < MaxFaults
    /\ k \in CutSizes(FrameLen(Msg(c, 1, len)))
    /\ LET j == Len(cli[c].sent) + 1
           w == SecureWriterWriteCut(Msg(c, j, len), <<c, c, j>>,
                                     cli[c].remote, DialKey(c), k)
       IN  /\ cli' = [cli EXCEPT ![c].pc = "failed", ![c].n = w.n,
                                  ![c].err = w.err]
           /\ c2s' = [c2s EXCEPT ![c] = @ \o w.out]
    /\ net' = [net EXCEPT ![c].broken = TRUE, ![c].anom = TRUE]
    /\ UNCHANGED <<variant, proc, serve, tsk, s2c, drum>>

\* The caller of Dial: conn.Read(buf) through the SecureReader, with a
\* fresh buffer of cap bytes; the transport returns k ciphertext bytes.
ClientRead(c, cap, k) ==
    /\ cli[c].pc = "ready"
    /\ Len(cli[c].rcvd) < Len(cli[c].sent)
    /\ SecureReadEnabled(s2c[c], ~net[c].sOpen, net[c].broken)
    /\ k \in ReadChoices(s2c[c], cap)
    /\ LET full == k \in {0, Min(SLen(s2c[c]) - NonceSize, cap + Overhead)}
           r == SecureReaderRead(s2c[c], ~net[c].sOpen, net[c].broken, cap, k,
                                 cli[c].remote, DialKey(c), <<>>)
       IN  /\ full \/ Faults < MaxFaults
           /\ net' = [net EXCEPT ![c].anom = @ \/ ~full]
           /\ s2c' = [s2c EXCEPT ![c] = r.rest]
           /\ IF r.err # "nil"
              THEN cli' = [cli EXCEPT ![c].pc = "failed", ![c].n = r.n,
                                      ![c].err = r.err]
              ELSE cli' = [cli EXCEPT ![c].rcvd = Append(@, Slice(r.buf, r.n)),
                                      ![c].n = r.n, ![c].err = "nil"]
    /\ UNCHANGED <<variant, proc, serve, tsk, c2s, drum>>

\* The caller of Dial: conn.Close().
ClientClose(c) ==
    /\ cli[c].pc = "ready"
    /\ cli' = [cli EXCEPT ![c].pc = "closed"]
    /\ net' = [net EXCEPT ![c].cOpen = FALSE]
    /\ UNCHANGED <<variant, proc, serve, tsk, c2s, s2c, drum>>

\* ---------------------------------------------------------------- server
\* Serve: box.GenerateKey(rand.Reader).
ServeGenerateKey(ok) ==
    /\ proc = "running"
    /\ serve = "keygen"
    /\ ok \/ Faults < MaxFaults
    /\ serve' = IF ok THEN "accept" ELSE "returned"
    /\ UNCHANGED <<variant, proc, cli, tsk, net, c2s, s2c, drum>>

\* (mutant) the connection's function is called without `go`: the loop
\* reaches Accept again only when that call has returned.
AcceptReadyInline == \A d \in Conns : tsk[d].pc \in {"none", "closed", "fatal"}

\* Whether the loop of Serve is back in l.Accept(): `go func(conn)` returns
\* at once, so the tasks already started never hold it up.
AcceptReady == TRUE

\* Serve: l.Accept() returns connection c; go func(conn) starts its task.
ServeAccept(c) ==
    /\ proc = "running"
    /\ serve = "accept"
    /\ AcceptReady
    /\ net[c].cOpen /\ ~net[c].acc /\ tsk[c].pc = "none"
    /\ net' = [net EXCEPT ![c].acc = TRUE]
    /\ tsk' = [tsk EXCEPT ![c].pc = HsSteps[1]]
    /\ UNCHANGED <<variant, proc, serve, cli, c2s, s2c, drum>>

\* Serve: l.Accept() fails; Serve returns the error.
ServeAcceptError ==
    /\ proc = "running"
    /\ serve = "accept"
    /\ Faults < MaxFaults
    /\ serve' = "returned"
    /\ UNCHANGED <<variant, proc, cli, tsk, net, c2s, s2c, drum>>

\* The process ends: every socket it holds is closed by the system.
ExitedNet == [d \in Conns |-> [net[d] EXCEPT !.sOpen = FALSE]]

\* main: log.Fatal(Serve(l)).
MainExit ==
    /\ proc = "running"
    /\ serve = "returned"
    /\ proc' = "exited"
    /\ net' = ExitedNet
    /\ UNCHANGED <<variant, serve, cli, tsk, c2s, s2c, drum>>

\* What a connection task does with an error: challenge2/main.go calls
\* log.Fatalf (the process exits, no deferred call runs); part_000 logs,
\* returns, and the deferred conn.Close() runs.
OnTaskError == IF variant = "challenge2" THEN "fatal" ELSE "closed"

\* The task of connection c ends with error e after its state became t.
TaskEnd(c, t, how) ==
    /\ tsk' = [tsk EXCEPT ![c] = [t EXCEPT !.pc = how, !.buf = <<>>, !.nr = 0]]
    /\ IF how = "fatal"
       THEN proc' = "exited" /\ net' = ExitedNet
       ELSE proc' = proc /\ net' = [net EXCEPT ![c].sOpen = FALSE]

\* Connection task: conn.Write(pub[:]).
TaskWriteKey(c) ==
    /\ proc = "running"
    /\ tsk[c].pc = "hs_write"
    /\ IF net[c].broken
       THEN /\ TaskEnd(c, [tsk[c] EXCEPT !.ew = "io"], OnTaskError)
            /\ s2c' = s2c
       ELSE /\ tsk' = [tsk EXCEPT ![c].pc = AfterHs("hs_write", "copy_read"),
                                  ![c].keyOut = TRUE]
            /\ s2c' = [s2c EXCEPT ![TaskConn(c)] = @ \o PubKey(Server)]
            /\ UNCHANGED <<proc, net>>
    /\ UNCHANGED <<variant, serve, cli, c2s, drum>>

\* Connection task: io.ReadFull(conn, publicKey[:]).
TaskReadKey(c) ==
    /\ proc = "running"
    /\ tsk[c].pc = "hs_read"
    /\ ReadFullEnabled(c2s[c], KeySize, ~net[c].cOpen, net[c].broken)
    /\ LET r == ReadFull(c2s[c], KeySize, ~net[c].cOpen, net[c].broken)
       IN  /\ c2s' = [c2s EXCEPT ![c] = r.rest]
           /\ IF r.err # "nil"
              THEN TaskEnd(c, [tsk[c] EXCEPT !.er = r.err], OnTaskError)
              ELSE /\ tsk' = [tsk EXCEPT
                                ![c].pc = AfterHs("hs_read", "copy_read"),
                                ![c].remote = r.data]
                   /\ UNCHANGED <<proc, net>>
    /\ UNCHANGED <<variant, serve, cli, s2c, drum>>

\* io.Copy(secureWriter, secureReader): nr, er := src.Read(buf), with the
\* 32 KiB buffer io.Copy allocates.
EchoRead(c, k) ==
    /\ proc = "running"
    /\ tsk[c].pc = "copy_read"
    /\ SecureReadEnabled(c2s[c], ~net[c].cOpen, net[c].broken)
    /\ k \in ReadChoices(c2s[c], CopyBufSize)
    /\ \E r \in {SecureReaderRead(c2s[c], ~net[c].cOpen, net[c].broken,
                                 CopyBufSize, k, tsk[c].remote, Server,
                                 tsk[c].buf)} :
       LET full == k \in {0, Min(SLen(c2s[c]) - NonceSize,
                                 CopyBufSize + Overhead)}
       IN  /\ full \/ Faults < MaxFaults
           /\ net' = [net EXCEPT ![c].anom = @ \/ ~full]
           /\ c2s' = [c2s EXCEPT ![c] = r.rest]
           /\ tsk' = [tsk EXCEPT ![c].pc = "copy_write", ![c].buf = r.buf,
                                 ![c].nr = r.n, ![c].er = r.err]
    /\ UNCHANGED <<variant, proc, serve, cli, s2c, drum>>

\* io.Copy: if nr > 0, dst.Write(buf[0:nr]); then a read or write error ends
\* the loop.  Every error Read returns is wrapped, so none equals io.EOF and
\* io.Copy reports each of them.
EchoWrite(c) ==
    /\ proc = "running"
    /\ tsk[c].pc = "copy_write"
    /\ LET t == tsk[c]
           w == SecureWriterWrite(Slice(t.buf, t.nr), <<Server, c, t.nw + 1>>,
                                  t.remote, Server, net[c].broken)
       IN  IF t.nr > CopyBufSize
           THEN \* buf[0:nr] is out of range: the goroutine panics
                /\ TaskEnd(c, t, "fatal")
                /\ s2c' = s2c
           ELSE IF t.nr > 0 /\ w.err # "nil"
           THEN /\ TaskEnd(c, [t EXCEPT !.ew = w.err], OnTaskError)
                /\ s2c' = s2c
           ELSE /\ s2c' = [s2c EXCEPT ![TaskConn(c)] =
                             IF t.nr > 0 /\ net[TaskConn(c)].cOpen
                             THEN @ \o w.out ELSE @]
                /\ IF t.er # "nil"
                   THEN TaskEnd(c, [t EXCEPT !.nw = IF t.nr > 0 THEN @ + 1
                                                                 ELSE @],
                                OnTaskError)
                   ELSE /\ tsk' = [tsk EXCEPT ![c].pc = "copy_read",
                                              ![c].nw = IF t.nr > 0 THEN @ + 1
                                                                   ELSE @,
                                              ![c].nr = 0]
                        /\ UNCHANGED <<proc, net>>
    /\ UNCHANGED <<variant, serve, cli, c2s, drum>>

\* ----------------------------------------------------------- environment
\* The transport of connection c fails: every later read and write on it
\* returns an error.
Break(c) ==
    /\ net[c].cOpen /\ net[c].sOpen /\ ~net[c].anom
    /\ Faults < MaxFaults
    /\ net' = [net EXCEPT ![c].broken = TRUE, ![c].anom = TRUE]
    /\ UNCHANGED <<variant, proc, serve, cli, tsk, c2s, s2c, drum>>

\* A frame in flight to the server is altered: a bit of its nonce or of its
\* ciphertext is flipped.
Tamper(c, what) ==
    /\ ~net[c].anom
    /\ Faults < MaxFaults
    /\ c2s[c] # <<>>
    /\ Head(c2s[c])[1].kind = "box"
    /\ Head(c2s[c])[2] = 0
    /\ c2s' = [c2s EXCEPT ![c] =
                 << <<[Head(@)[1] EXCEPT !.alt = what], 0, Head(@)[3]>> >>
                 \o Tail(@)]
    /\ net' = [net EXCEPT ![c].anom = TRUE]
    /\ UNCHANGED <<variant, proc, serve, cli, tsk, s2c, drum>>

Next ==
    \/ \E c \in Conns : DialConnect(c)
    \/ \E c \in Conns : DialWriteKey(c)
    \/ \E c \in Conns : DialReadKey(c)
    \/ \E c \in Conns, len \in 1..MaxMsgLen : ClientWrite(c, len)
    \/ \E c \in Conns, len \in 1..MaxMsgLen, k \in 1..(NonceSize + MaxMsgLen + Overhead) :
          ClientWriteCut(c, len, k)
    \/ \E c \in Conns, cap \in 1..(MaxMsgLen + 1), k \in 0..(MaxMsgLen + 1 + Overhead) :
          ClientRead(c, cap, k)
    \/ \E c \in Conns : ClientClose(c)
    \/ \E ok \in BOOLEAN : ServeGenerateKey(ok)
    \/ \E c \in Conns : ServeAccept(c)
    \/ ServeAcceptError
    \/ MainExit
    \/ \E c \in Conns : TaskWriteKey(c)
    \/ \E c \in Conns : TaskReadKey(c)
    \/ \E c \in Conns, k \in 0..(MaxSends * (NonceSize + MaxMsgLen + Overhead)) :
          EchoRead(c, k)
    \/ \E c \in Conns : EchoWrite(c)
    \/ \E c \in Conns : Break(c)
    \/ \E c \in Conns, what \in {"nonce", "ct"} : Tamper(c, what)

Spec == Init /\ [][Next]_vars

\* The handshakes alone (no message is written), with the scheduling the Go
\* runtime gives: a goroutine that can take its next step eventually does.
HsNext ==
    \/ \E c \in Conns : DialConnect(c)
    \/ \E c \in Conns : DialWriteKey(c)
    \/ \E c \in Conns : DialReadKey(c)
    \/ \E ok \in BOOLEAN : ServeGenerateKey(ok)
    \/ \E c \in Conns : ServeAccept(c)
    \/ ServeAcceptError
    \/ MainExit
    \/ \E c \in Conns : TaskWriteKey(c)
    \/ \E c \in Conns : TaskReadKey(c)
    \/ \E c \in Conns : Break(c)

FairHandshake ==
    /\ Init
    /\ [][HsNext]_vars
    /\ \A c \in Conns : /\ WF_vars(DialWriteKey(c))
                        /\ WF_vars(DialReadKey(c))
                        /\ WF_vars(TaskWriteKey(c))
                        /\ WF_vars(TaskReadKey(c))

\* All the bytes a conn.Read into a buffer for cap plaintext bytes can return
\* at once, the nonce taken off the stream s.
AllThere(s, cap) == Min(SLen(s) - NonceSize, cap + Overhead)

\* One client and the server on an unreliable transport: main dials once
\* (the client half of main, lines 168-179), the connection may fail, deliver
\* short reads, or carry an altered frame.
OneConnNext ==
    \/ DialConnect(1)
    \/ DialWriteKey(1)
    \/ DialReadKey(1)
    \/ \E len \in 1..MaxMsgLen : ClientWrite(1, len)
    \/ \E len \in 1..MaxMsgLen, k \in 1..(NonceSize + MaxMsgLen + Overhead) :
          ClientWriteCut(1, len, k)
    \/ \E cap \in 1..(MaxMsgLen + 1), k \in 0..(MaxMsgLen + 1 + Overhead) :
          ClientRead(1, cap, k)
    \/ ClientClose(1)
    \/ \E ok \in BOOLEAN : ServeGenerateKey(ok)
    \/ ServeAccept(1)
    \/ ServeAcceptError
    \/ MainExit
    \/ TaskWriteKey(1)
    \/ TaskReadKey(1)
    \/ \E k \in 0..(MaxSends * (NonceSize + MaxMsgLen + Overhead)) : EchoRead(1, k)
    \/ EchoWrite(1)
    \/ Break(1)
    \/ \E what \in {"nonce", "ct"} : Tamper(1, what)

OneConn == Init /\ [][OneConnNext]_vars

\* Concurrent clients on a reliable transport: every client runs main's client
\* half once (dial, one Write, one Read, close), every read returns all the
\* bytes the stream holds, and nothing fails.
ConcurrentNext ==
    \/ \E c \in Conns : DialConnect(c)
    \/ \E c \in Conns : DialWriteKey(c)
    \/ \E c \in Conns : DialReadKey(c)
    \/ \E c \in Conns, len \in 1..MaxMsgLen :
          cli[c].sent = <<>> /\ ClientWrite(c, len)
    \/ \E c \in Conns, cap \in 1..(MaxMsgLen + 1) :
          ClientRead(c, cap, AllThere(s2c[c], cap))
    \/ \E c \in Conns : ClientClose(c)
    \/ ServeGenerateKey(TRUE)
    \/ \E c \in Conns : ServeAccept(c)
    \/ \E c \in Conns : TaskWriteKey(c)
    \/ \E c \in Conns : TaskReadKey(c)
    \/ \E c \in Conns : EchoRead(c, AllThere(c2s[c], CopyBufSize))
    \/ \E c \in Conns : EchoWrite(c)

Concurrent == Init /\ [][ConcurrentNext]_vars

\* The server under the scheduling of the Go runtime, with clients that may
\* stop at any point and stay there: a server goroutine that can take its
\* next step eventually does; no client is obliged to do anything, none
\* closes its connection, and the transport is reliable.
ServingNext ==
    \/ \E c \in Conns : DialConnect(c)
    \/ \E c \in Conns : DialWriteKey(c)
    \/ \E c \in Conns : DialReadKey(c)
    \/ \E c \in Conns, len \in 1..MaxMsgLen :
          cli[c].sent = <<>> /\ ClientWrite(c, len)
    \/ ServeGenerateKey(TRUE)
    \/ \E c \in Conns : ServeAccept(c)
    \/ \E c \in Conns : TaskWriteKey(c)
    \/ \E c \in Conns : TaskReadKey(c)
    \/ \E c \in Conns : EchoRead(c, AllThere(c2s[c], CopyBufSize))
    \/ \E c \in Conns : EchoWrite(c)

\* The steps of the goroutine that runs Serve, and of the connection task
\* of c.
ServeLoop == ServeGenerateKey(TRUE) \/ \E c \in Conns : ServeAccept(c)

Task(c) ==
    \/ TaskWriteKey(c)
    \/ TaskReadKey(c)
    \/ EchoRead(c, AllThere(c2s[c], CopyBufSize))
    \/ EchoWrite(c)

FairServing ==
    /\ Init
    /\ [][ServingNext]_vars
    /\ WF_vars(ServeLoop)
    /\ \A c \in Conns : WF_vars(Task(c))

\* ------------------------------------------------------- DecodeFile steps
\* The files decoded: the layout header, tempo, tracks (track i with a name
\* of words[i] bytes), cut after any number of bytes, with a FileSize field
\* that is right, zero, or the length of the whole file.
WordSeqs == UNION {[1..n -> 0..MaxWord] : n \in 0..MaxTracks}

DrumInputs ==
    {[NoDrum EXCEPT !.ver = v, !.words = w, !.len = l, !.size = s,
                    !.pc = "start"] :
        v \in DrumVersions, w \in WordSeqs,
        l \in 0..(HeaderSize + TempoSize + MaxTracks * TrackSize(MaxWord)),
        s \in 0..(HeaderSize + TempoSize + MaxTracks * TrackSize(MaxWord))}

DrumInit ==
    /\ variant = "challenge2"
    /\ proc = "running"
    /\ serve = "keygen"
    /\ cli = [c \in Conns |-> NoCli]
    /\ tsk = [c \in Conns |-> NoTsk]
    /\ net = [c \in Conns |-> NoNet]
    /\ c2s = [c \in Conns |-> <<>>]
    /\ s2c = [c \in Conns |-> <<>>]
    /\ drum \in {d \in DrumInputs :
                   /\ d.len <= FullLen(d.words)
                   /\ d.size \in {FullLen(d.words) - SizeFieldEnd, 0,
                                  FullLen(d.words)}}

\* DecodeFile returns (pat, err).
DrumReturn(d, pat, err) ==
    drum' = [d EXCEPT !.pc = "done", !.pat = pat, !.err = err,
                      !.tracks = IF pat = "nil" THEN <<>> ELSE @]

\* The header and the tempo.  part_001 does not look at the error of the
\* tempo's binary.Read; readHeader returns it.
DecodeReadHeader ==
    /\ drum.pc = "start"
    /\ LET hd == FileReadFull(drum.len, 0, HeaderSize)
           tp == FileReadFull(drum.len, HeaderSize, TempoSize)
       IN  IF hd.err # "nil"
           THEN DrumReturn([drum EXCEPT !.failed = TRUE], "nil", "error")
           ELSE IF tp.err # "nil" /\ drum.ver = "drum.go"
           THEN DrumReturn([drum EXCEPT !.failed = TRUE], "nil", "error")
           ELSE drum' = [drum EXCEPT !.pc = "loop",
                                     !.pos = HeaderSize + tp.n,
                                     !.failed = tp.err # "nil"]
    /\ UNCHANGED <<variant, proc, serve, cli, tsk, net, c2s, s2c>>

\* The rest of a track, its header read into (id, w) at offset pos: the
\* name, the steps, append.
DecodeTrackBody(d, id, w, pos) ==
    LET nm == FileReadFull(d.len, pos, w)
        st == FileReadFull(d.len, pos + w, StepsInTrack)
    IN  IF nm.err # "nil" \/ st.err # "nil"
        THEN DrumReturn([d EXCEPT !.failed = TRUE], "nil", "error")
        ELSE drum' = [d EXCEPT !.pos = pos + w + StepsInTrack,
                               !.hdrId = id, !.hdrW = w,
                               !.tracks = Append(@, <<id, w>>)]

\* One turn of the track loop.
DecodeTrack ==
    /\ drum.pc = "loop"
    /\ LET d  == [drum EXCEPT !.iters = @ + 1]
           th == FileReadFull(drum.len, drum.pos, TrackHeaderSize)
           i  == TrackAt(drum.words, drum.pos)
       IN  IF drum.ver = "part_001"
           THEN \* err = binary.Read(...); if err == io.EOF { break }; any
                \* other error leaves trackHeader as it was and goes on;
                \* after the loop: return &pattern, err
                IF th.err = "EOF"
                THEN DrumReturn(d, "pattern", "EOF")
                ELSE IF th.err # "nil"
                THEN DecodeTrackBody([d EXCEPT !.failed = TRUE], drum.hdrId,
                                     drum.hdrW, drum.pos + th.n)
                ELSE DecodeTrackBody(d, i, drum.words[i], drum.pos + th.n)
           ELSE \* offset, _ := file.Seek(0, os.SEEK_CUR);
                \* if offset > p.fileSize { break }; readTrack
                IF drum.pos > drum.size
                THEN DrumReturn(d, "pattern", "nil")
                ELSE IF th.err # "nil"
                THEN DrumReturn([d EXCEPT !.failed = TRUE], "nil", "error")
                ELSE DecodeTrackBody(d, i, drum.words[i], drum.pos + th.n)
    /\ UNCHANGED <<variant, proc, serve, cli, tsk, net, c2s, s2c>>

DrumNext == DecodeReadHeader \/ DecodeTrack

DrumSpec == DrumInit /\ [][DrumNext]_vars

\* ------------------------------------------------------------------ claims
IsPrefix(a, b) == Len(a) <= Len(b) /\ SubSeq(b, 1, Len(a)) = a

TaskEnded(c) == tsk[c].pc \in {"closed", "fatal"}

ReadErrors == {"read nonce", "read message", "open message"}

\* C1: a failure on one connection (handshake or echo loop) ends only that
\* connection's task: the process and the accept loop go on, and no other
\* connection's task or socket is touched.
C1_FailureIsolated ==
    [][\A c \in Conns :
         (~TaskEnded(c) /\ TaskEnded(c)')
         => /\ proc' = "running"
            /\ serve' = serve
            /\ \A d \in Conns \ {c} : tsk'[d] = tsk[d] /\ net'[d] = net[d]]_vars

\* The stream s starts with a whole frame that is altered, or sealed under a
\* key pair other than (pub, priv).
BadFrameAhead(s, pub, priv) ==
    /\ s # <<>>
    /\ Head(s)[1].kind = "box"
    /\ Head(s)[2] = 0
    /\ Head(s)[1].alt # "ok" \/ Head(s)[1].sk # Shared(priv, pub)

\* C2: Read fails closed: on an altered frame, or one sealed under another key
\* pair, it returns an error, reports zero bytes and leaves the caller's
\* buffer as it was.
C2_ReadFailsClosed ==
    [][\A c \in Conns :
         (/\ tsk[c].pc = "copy_read"
          /\ tsk'[c].pc = "copy_write"
          /\ BadFrameAhead(c2s[c], tsk[c].remote, Server))
         => /\ tsk'[c].er # "nil"
            /\ tsk'[c].nr = 0
            /\ tsk'[c].buf = tsk[c].buf]_vars

\* C3: the echo loop writes a frame only for a read that returned an
\* authenticated message: no frame goes out after a read that failed.
C3_EchoOnlyAuthenticated ==
    [][\A c \in Conns :
         tsk'[c].nw > tsk[c].nw
         => /\ tsk[c].er = "nil"
            /\ tsk[c].nr > 0
            /\ s2c'[c] = s2c[c] \/ s2c'[c] = s2c[c] \o
                 Seal(<<Server, c, tsk'[c].nw>>, Slice(tsk[c].buf, tsk[c].nr),
                      tsk[c].remote, Server)]_vars

ClientFrameWork(c) ==
    \/ cli[c].pc \in {"ready", "closed"}
    \/ cli[c].sent # <<>>
    \/ cli[c].rcvd # <<>>
    \/ cli[c].err \in ReadErrors \cup {"io"}

TaskFrameWork(c) ==
    \/ tsk[c].pc \in {"copy_read", "copy_write"}
    \/ tsk[c].nw > 0
    \/ tsk[c].er \in ReadErrors
    \/ \E i \in 1..Len(s2c[c]) : s2c[c][i][1].kind = "box"

\* C4: on both sides of every connection, no frame is sealed, written, read
\* or opened before that side has written its own public key and read the
\* peer's 32 bytes.
C4_HandshakeBeforeFrames ==
    \A c \in Conns :
        /\ ClientFrameWork(c)
           => cli[c].keyOut /\ SLen(cli[c].remote) = KeySize
        /\ TaskFrameWork(c)
           => tsk[c].keyOut /\ SLen(tsk[c].remote) = KeySize

C4_Witness ==
    \E c \in Conns :
        /\ cli[c].sent # <<>> /\ cli[c].rcvd # <<>>
        /\ tsk[c].nw > 0

InHandshake(p) == p \in {"hs_write", "hs_read"}

ClientBlocked(c) ==
    /\ cli[c].pc = "hs_read"
    /\ ~ReadFullEnabled(s2c[c], KeySize, ~net[c].sOpen, net[c].broken)

TaskBlocked(c) ==
    /\ tsk[c].pc = "hs_read"
    /\ ~ReadFullEnabled(c2s[c], KeySize, ~net[c].cOpen, net[c].broken)

HsDone(c) == cli[c].remote # NoKey /\ tsk[c].remote # NoKey

\* C5: the handshake does not deadlock: the initiator and the responder are
\* never both blocked, and once both have started it over a working
\* transport both complete it.
C5_HandshakeCompletes ==
    /\ [](\A c \in Conns : ~(ClientBlocked(c) /\ TaskBlocked(c)))
    /\ \A c \in Conns :
         (InHandshake(cli[c].pc) /\ InHandshake(tsk[c].pc))
         ~> (HsDone(c) \/ net[c].broken \/ proc = "exited")

C5_Witness ==
    \E c \in Conns :
        /\ HsDone(c)
        /\ cli[c].pc = "ready" /\ tsk[c].pc = "copy_read"
        /\ ~net[c].broken /\ proc = "running"

\* C6: after the handshake the client holds the public key Serve generated
\* (one key for every connection) and the task of connection c holds the key
\* of the Dial call of c, which is the key of no other Dial call.
C6_SessionKeysBound ==
    \A c \in Conns :
        /\ cli[c].remote # NoKey => cli[c].remote = PubKey(Server)
        /\ tsk[c].remote # NoKey
           => /\ tsk[c].remote = PubKey(DialKey(c))
              /\ \A d \in Conns \ {c} : tsk[c].remote # PubKey(DialKey(d))

C6_Witness ==
    \A c \in Conns :
        /\ cli[c].remote = PubKey(Server)
        /\ tsk[c].remote = PubKey(DialKey(c))

\* Every plaintext byte of m is a byte of connection c, or a zero byte of a
\* fresh buffer.
OwnBytes(c, m) == \A i \in 1..Len(m) : m[i][1] \in {0, c}

\* C7: connections are isolated: nothing the server writes to connection c,
\* holds in its task's buffer or hands to client c comes from another
\* connection, and a client that sent one message over a connection whose
\* transport delivers it unaltered and whole reads back nothing but that
\* message.
C7_ConcurrentIsolation ==
    \A c \in Conns :
        /\ \A i \in 1..Len(s2c[c]) : OwnBytes(c, s2c[c][i][1].msg)
        /\ \A i \in 1..Len(cli[c].rcvd) : OwnBytes(c, cli[c].rcvd[i])
        /\ OwnBytes(c, tsk[c].buf)
        /\ (~net[c].anom /\ Len(cli[c].sent) <= 1)
           => IsPrefix(cli[c].rcvd, cli[c].sent)

C7_Witness ==
    /\ \A c \in Conns : Len(cli[c].sent) = 1 /\ cli[c].rcvd = cli[c].sent
    /\ \E c, d \in Conns : cli[c].sent # cli[d].sent

\* Connection c is the only one open, and no fault has occurred.
AloneAndClean(c) ==
    /\ Faults = 0
    /\ \A d \in Conns \ {c} : cli[d].pc = "init"

\* C8: within one connection the replies come back in the order sent: each
\* Read of the client, with a buffer at least as long as the next message it
\* wrote, returns that message.
C8_RepliesInOrder ==
    [][\A c \in Conns, cap \in 1..(MaxMsgLen + 1), k \in 0..(MaxMsgLen + 1 + Overhead) :
         (/\ ClientRead(c, cap, k)
          /\ AloneAndClean(c) /\ AloneAndClean(c)'
          /\ cap >= Len(cli[c].sent[Len(cli[c].rcvd) + 1]))
         => /\ cli'[c].err = "nil"
            /\ cli'[c].rcvd = SubSeq(cli[c].sent, 1, Len(cli[c].rcvd) + 1)]_vars

\* The stream s starts with a whole, unaltered frame sealed for the reader
\* holding (pub, priv), whose plaintext fits a buffer of cap bytes.
GoodFrameAhead(s, pub, priv, cap) ==
    /\ s # <<>>
    /\ Head(s)[1].kind = "box"
    /\ Head(s)[2] = 0
    /\ Head(s)[3] = NonceSize + Len(Head(s)[1].msg) + Overhead
    /\ Head(s)[1].alt = "ok"
    /\ Head(s)[1].sk = Shared(priv, pub)
    /\ Len(Head(s)[1].msg) <= cap

\* C9: round trip: Read, applied to the frame Write(m) produced for the
\* reader's session keys, with a buffer of at least length(m), returns m and
\* a nil error (here even with a transport that hands over, in one read, every
\* byte it holds).
C9_RoundTrip ==
    [][\A c \in Conns :
         /\ (/\ EchoRead(c, AllThere(c2s[c], CopyBufSize))
             /\ GoodFrameAhead(c2s[c], tsk[c].remote, Server, CopyBufSize))
            => /\ tsk'[c].er = "nil"
               /\ Slice(tsk'[c].buf, tsk'[c].nr) = Head(c2s[c])[1].msg
         /\ \A cap \in 1..(MaxMsgLen + 1) :
              (/\ ClientRead(c, cap, AllThere(s2c[c], cap))
               /\ GoodFrameAhead(s2c[c], cli[c].remote, DialKey(c), cap))
              => /\ cli'[c].err = "nil"
                 /\ cli'[c].rcvd = Append(cli[c].rcvd, Head(s2c[c])[1].msg)]_vars

\* C10: a successful Write(m) makes one write on the stream, of
\* 24 + length(m) + 16 bytes, the nonce first, and returns length(m).
C10_WriteFraming ==
    [][\A c \in Conns, len \in 1..MaxMsgLen :
         (ClientWrite(c, len) /\ cli'[c].err = "nil")
         => /\ cli'[c].n = len
            /\ net[c].sOpen
               => /\ Len(c2s'[c]) = Len(c2s[c]) + 1
                  /\ SubSeq(c2s'[c], 1, Len(c2s[c])) = c2s[c]
                  /\ LET f == <<c2s'[c][Len(c2s'[c])]>>
                     IN  /\ SLen(f) = NonceSize + len + Overhead
                         /\ NonceVal(Take(f, NonceSize))
                              = <<c, c, Len(cli'[c].sent)>>
                         /\ Open(Drop(f, NonceSize), Take(f, NonceSize),
                                 PubKey(DialKey(c)), Server).dec
                              = cli'[c].sent[Len(cli'[c].sent)]]_vars

C10_Witness ==
    \E c \in Conns :
        /\ cli[c].sent # <<>>
        /\ cli[c].err = "nil"
        /\ cli[c].n = Len(cli[c].sent[Len(cli[c].sent)])
        /\ c2s[c] # <<>>
        /\ c2s[c][Len(c2s[c])][1].kind = "box"
        /\ PLen(c2s[c][Len(c2s[c])])
             = NonceSize + cli[c].n + Overhead

\* C11: Serve returns only when key generation or Accept fails (both return
\* statements carry an error), and nothing that happens on an accepted
\* connection makes it return or stop accepting: the accept loop stops only
\* after Serve has returned.
C11_ServeReturnsOnlyOnListener ==
    [][/\ (serve # "returned" /\ serve' = "returned")
          => (ServeGenerateKey(FALSE) \/ ServeAcceptError)
       /\ (proc = "running" /\ proc' = "exited") => serve = "returned"]_vars

\* C12: the accept loop never waits for a connection: whatever the other
\* connections do (a peer that never sends its key, a peer that is idle in
\* the echo loop), every connection a client opens is accepted, a client
\* that sends its key gets its handshake completed by its task, and a client
\* that writes a message gets it echoed.
C12_AcceptNeverWaits ==
    \A c \in Conns :
        /\ net[c].cOpen ~> net[c].acc
        /\ cli[c].keyOut ~> (tsk[c].keyOut /\ tsk[c].remote # NoKey)
        /\ (cli[c].sent # <<>>) ~> (tsk[c].nw > 0)

C12_Witness ==
    \E c, d \in Conns :
        /\ c # d
        /\ tsk[c].pc = "hs_read" /\ ~cli[c].keyOut /\ c2s[c] = <<>>
        /\ tsk[d].nw > 0
        /\ cli[d].sent # <<>>
        /\ s2c[d] = Seal(<<Server, d, 1>>, cli[d].sent[1], PubKey(DialKey(d)),
                         Server)

Active(p) == p \in {"copy_read", "copy_write"}

\* C13: the task of a connection moves only along accepted -> handshake ->
\* echo loop -> closed (a failed handshake going straight to closed), never
\* leaves closed, and whenever it ends (failed handshake, error in the echo
\* loop, peer closing the stream) it ends in closed, having closed its
\* connection.
C13_ConnectionLifecycle ==
    [][\A c \in Conns :
         LET p == tsk[c].pc
             q == tsk'[c].pc
         IN  /\ p # q
                => \/ p = "none" /\ q = HsSteps[1]
                   \/ InHandshake(p) /\ InHandshake(q)
                   \/ InHandshake(p) /\ q = "copy_read"
                   \/ Active(p) /\ Active(q)
                   \/ (InHandshake(p) \/ Active(p)) /\ q = "closed"
             /\ p = "closed" => tsk'[c] = tsk[c] /\ ~net'[c].sOpen
             /\ (~TaskEnded(c) /\ TaskEnded(c)')
                => q = "closed" /\ ~net'[c].sOpen]_vars

\* C15: when the stream write fails, at once or after part of the frame,
\* Write returns the error and a count that is at least 0 and less than the
\* length of the message.
C15_WriteFailureReported ==
    [][\A c \in Conns, len \in 1..MaxMsgLen :
         /\ (ClientWrite(c, len) /\ net[c].broken)
            => /\ cli'[c].err # "nil"
               /\ cli'[c].n >= 0 /\ cli'[c].n < len
         /\ \A k \in 1..FrameLen(Msg(c, 1, len)) :
              ClientWriteCut(c, len, k)
              => /\ cli'[c].err # "nil"
                 /\ cli'[c].n >= 0 /\ cli'[c].n < len]_vars

\* The stream s starts at a frame boundary, with a whole frame.
WholeFrameAhead(s) ==
    /\ s # <<>>
    /\ Head(s)[1].kind = "box"
    /\ Head(s)[2] = 0
    /\ Head(s)[3] = NonceSize + Len(Head(s)[1].msg) + Overhead

\* C16: one Read consumes exactly one frame: with a whole frame at the head
\* of the stream, however many frames follow it and in however many pieces
\* the transport delivers it, Read takes that frame off the stream and
\* nothing more, and returns its plaintext if the frame is the peer's,
\* unaltered.  (For the client: with a buffer as long as the plaintext.)
C16_OneFramePerRead ==
    [][\A c \in Conns :
         /\ (/\ tsk[c].pc = "copy_read" /\ tsk'[c].pc = "copy_write"
             /\ ~net[c].broken
             /\ WholeFrameAhead(c2s[c]))
            => /\ c2s'[c] = Tail(c2s[c])
               /\ GoodFrameAhead(c2s[c], tsk[c].remote, Server, CopyBufSize)
                  => /\ tsk'[c].er = "nil"
                     /\ Slice(tsk'[c].buf, tsk'[c].nr) = Head(c2s[c])[1].msg
         /\ \A cap \in 1..(MaxMsgLen + 1), k \in 0..(MaxMsgLen + 1 + Overhead) :
              (/\ ClientRead(c, cap, k)
               /\ ~net[c].broken
               /\ WholeFrameAhead(s2c[c])
               /\ Len(Head(s2c[c])[1].msg) <= cap)
              => /\ s2c'[c] = Tail(s2c[c])
                 /\ GoodFrameAhead(s2c[c], cli[c].remote, DialKey(c), cap)
                    => /\ cli'[c].err = "nil"
                       /\ cli'[c].rcvd
                            = Append(cli[c].rcvd, Head(s2c[c])[1].msg)]_vars

\* The last Read of the task of c met the end of the stream where the next
\* nonce would start: the peer has closed, nothing is left to read.
PeerClosed(c) ==
    /\ tsk[c].pc = "copy_write"
    /\ tsk[c].er = "read nonce" /\ tsk[c].nr = 0
    /\ c2s[c] = <<>>
    /\ ~net[c].cOpen /\ ~net[c].broken

\* C17: when the peer has closed the stream at a frame boundary, the echo
\* loop of that connection ends as a normal close: the task closes the
\* connection and echoes nothing more, and the process, the accept loop and
\* every other connection go on.
C17_CleanCloseIsNormal ==
    [][\A c \in Conns :
         (PeerClosed(c) /\ tsk'[c] # tsk[c])
         => /\ tsk'[c].pc = "closed"
            /\ ~net'[c].sOpen
            /\ s2c' = s2c
            /\ proc' = "running"
            /\ serve' = serve
            /\ \A d \in Conns \ {c} : tsk'[d] = tsk[d] /\ net'[d] = net[d]]_vars

\* C18: a Read with a buffer shorter than the plaintext of the next frame
\* returns an error and leaves the buffer and the messages received as they
\* were (no truncated message); a Read that succeeds returns no more bytes
\* than the buffer holds.
C18_ShortBufferFails ==
    [][\A c \in Conns, cap \in 1..(MaxMsgLen + 1),
          k \in 0..(MaxMsgLen + 1 + Overhead) :
         ClientRead(c, cap, k)
         => /\ (WholeFrameAhead(s2c[c]) /\ Len(Head(s2c[c])[1].msg) > cap)
               => /\ cli'[c].err # "nil"
                  /\ cli'[c].rcvd = cli[c].rcvd
                  /\ SecureReaderRead(s2c[c], ~net[c].sOpen, net[c].broken,
                                      cap, k, cli[c].remote, DialKey(c),
                                      <<>>).buf = <<>>
            /\ cli'[c].err = "nil"
               => /\ cli'[c].n <= cap
                  /\ Len(cli'[c].rcvd[Len(cli'[c].rcvd)]) = cli'[c].n]_vars

\* A client whose Read failed on its own echoed message, on a transport
\* without fault: its buffer was shorter than the message, and the bytes of
\* the frame that did not fit are still on the stream.
C18_Witness ==
    \E c \in Conns :
        /\ cli[c].pc = "failed" /\ cli[c].err = "open message"
        /\ ~net[c].anom
        /\ cli[c].sent # <<>> /\ cli[c].rcvd = <<>>
        /\ s2c[c] # <<>>
        /\ Head(s2c[c])[1].msg = cli[c].sent[1]
        /\ Head(s2c[c])[2] > NonceSize

DialErrors == {"write public key", "read public key"}

\* C19: after Dial has returned an error of the handshake, the transport
\* connection it opened is closed: a connection stays open on the client's
\* side only while Dial runs or after it has returned a handle.
C19_DialFailureCloses ==
    \A c \in Conns :
        (cli[c].pc = "failed" /\ cli[c].err \in DialErrors) => ~net[c].cOpen


\* C20: DecodeFile returns a non-nil pattern exactly when it returns a nil
\* error: a well-formed file, whose tracks end at the end of the file, gives
\* the pattern with all its tracks and a nil error; a failed read of the
\* header, the tempo or a track gives a nil pattern and a non-nil error; and
\* the track loop makes at most one turn more than the file has tracks.
WellFormed(d) ==
    /\ d.len = FullLen(d.words)
    /\ d.size = FullLen(d.words) - SizeFieldEnd

C20_DecodeFileResult ==
    /\ drum.iters <= Len(drum.words) + 1
    /\ drum.pc = "done" =>
         /\ (drum.pat # "nil") <=> (drum.err = "nil")
         /\ WellFormed(drum) =>
              /\ drum.pat = "pattern"
              /\ drum.err = "nil"
              /\ Len(drum.tracks) = Len(drum.words)
              /\ \A i \in 1..Len(drum.words) :
                     drum.tracks[i] = <<i, drum.words[i]>>
         /\ drum.failed => (drum.pat = "nil" /\ drum.err # "nil")

====
